---- MODULE Spec2Model ----
(***************************************************************************)
(* Model of scripts/ttc_data_ingestion.py: the GTFS ingestion pipeline     *)
(* (extract_gtfs_zip, validate_gtfs_files, load_gtfs_to_database) and its  *)
(* driver main().                                                          *)
(*                                                                         *)
(* A text file is a sequence of lines (naturals); line 1 is the header.    *)
(* A directory, an archive's entry table and the database are partial      *)
(* functions: a name is in the DOMAIN iff the file / entry / table exists. *)
(***************************************************************************)
EXTENDS Integers, Sequences, FiniteSets, TLC

VARIABLES
    zip,            \* the archive at DATA_DIR/gtfs.zip
    dirExists,      \* DATA_DIR exists
    dir,            \* files of DATA_DIR: name -> text
    db,             \* tables of DB_PATH: table name -> [columns, rows]
    pc,             \* position of the running call
    i,              \* load_gtfs_to_database: index of `file` in GTFS_FILES
    conn,           \* load_gtfs_to_database: the connection of this call
    trace,          \* stages invoked in this run of main(), in order
    extractRet,     \* return value of extract_gtfs_zip
    validateRet,    \* return value of validate_gtfs_files
    missing_files,  \* validate_gtfs_files: the list it builds
    loadRet,        \* return value of load_gtfs_to_database
    loaded,         \* load_gtfs_to_database: "Loaded n records from f" log
    failedAt,       \* load_gtfs_to_database: <<index, cause>> of the failure
    completed,      \* main logged "completed successfully"
    escaped,        \* exception that propagated out of the call, or "none"
    runs,           \* number of calls started
    dirBefore,      \* history: dir when the current call started
    dbBefore,       \* history: db when the current call started
    dbAfterOk       \* history: the databases successful load calls left

vars == <<zip, dirExists, dir, db, pc, i, conn, trace, extractRet,
          validateRet, missing_files, loadRet, loaded, failedAt, completed,
          escaped, runs, dirBefore, dbBefore, dbAfterOk>>

----------------------------------------------------------------------------
(* Bounds *)

MaxRuns == 2        \* calls of main() / of load_gtfs_to_database checked
MaxRows == 3        \* data rows of a file: 0..MaxRows

----------------------------------------------------------------------------
(* Configuration *)

GTFS_FILES ==
    << "agency.txt", "stops.txt", "routes.txt", "trips.txt",
       "stop_times.txt", "calendar.txt", "calendar_dates.txt" >>

Range(s) == {s[k] : k \in DOMAIN s}

Expected == Range(GTFS_FILES)

\* a file a feed may carry that the script does not expect
ExtraFile == "shapes.txt"

Names == Expected \cup {ExtraFile}

EmptyFn == [x \in {} |-> 0]

\* file.replace('.txt', '') on the names the script handles
TableName(file) ==
    CASE file = "agency.txt" -> "agency"
      [] file = "stops.txt" -> "stops"
      [] file = "routes.txt" -> "routes"
      [] file = "trips.txt" -> "trips"
      [] file = "stop_times.txt" -> "stop_times"
      [] file = "calendar.txt" -> "calendar"
      [] file = "calendar_dates.txt" -> "calendar_dates"
      [] OTHER -> file

TableNames == {TableName(GTFS_FILES[k]) : k \in DOMAIN GTFS_FILES}

----------------------------------------------------------------------------
(* Inputs: published feeds, archives, directories, databases *)

IndexOf(file) == CHOOSE k \in DOMAIN GTFS_FILES : GTFS_FILES[k] = file

\* data rows of `file` in feed version v
RowCount(v, file) ==
    IF file \in Expected THEN (IndexOf(file) + v) % (MaxRows + 1) ELSE 1

\* the text of `file` in feed version v: a header line (0), then the rows
FeedText(v, file) ==
    <<0>> \o [j \in 1..RowCount(v, file) |-> 10 * v + j]

\* the published feeds
Versions == {1, 2}

\* a file a feed may lack, and a file it may carry empty (0 bytes)
Omittable == "calendar_dates.txt"
Breakable == "trips.txt"

Feed(v, omit, broken) ==
    [kind |-> "zip",
     entries |-> [f \in Names \ omit |->
                    IF f \in broken THEN <<>> ELSE FeedText(v, f)]]

Feeds ==
    {Feed(v, omit, {}) : v \in Versions, omit \in {{}, {Omittable}}}
        \cup {Feed(1, {}, {Breakable})}

NoArchive == [kind |-> "absent", entries |-> EmptyFn]
CorruptArchive == [kind |-> "corrupt", entries |-> EmptyFn]

Archives == {NoArchive, CorruptArchive} \cup Feeds

----------------------------------------------------------------------------
(* Exceptions.  Every error the library calls of the script raise is a      *)
(* subclass of Exception.                                                   *)

ExceptionClasses ==
    {"FileNotFoundError", "BadZipFile", "EmptyDataError", "OperationalError"}

\* `except Exception as e` of extract_gtfs_zip
ExtractCatchesBadZipOnly(exc) == exc = "BadZipFile"

ExtractCatches(exc) == exc \in ExceptionClasses

\* `except Exception as e` of load_gtfs_to_database
LoadCatchesNothing(exc) == FALSE

LoadCatches(exc) == exc \in ExceptionClasses

----------------------------------------------------------------------------
(* extract_gtfs_zip *)

\* zipfile.ZipFile(zip_path, 'r'): the exception it raises, or "ok"
ZipFileOpen(z) ==
    CASE z.kind = "absent" -> "FileNotFoundError"
      [] z.kind = "corrupt" -> "BadZipFile"
      [] OTHER -> "ok"

\* zip_ref.extractall(extract_dir): entries overwrite, other files stay
extractall(d, entries) ==
    [f \in DOMAIN d \cup DOMAIN entries |->
        IF f \in DOMAIN entries THEN entries[f] ELSE d[f]]

----------------------------------------------------------------------------
(* validate_gtfs_files *)

RECURSIVE MissingFrom(_, _)
\* the loop of lines 108-112 from index k on
MissingFrom(d, k) ==
    IF k > Len(GTFS_FILES) THEN <<>>
    ELSE IF GTFS_FILES[k] \notin DOMAIN d
         THEN <<GTFS_FILES[k]>> \o MissingFrom(d, k + 1)
         ELSE MissingFrom(d, k + 1)

MissingFilesStopAtFirst(d) ==
    IF MissingFrom(d, 1) = <<>> THEN <<>> ELSE <<Head(MissingFrom(d, 1))>>

MissingFiles(d) == MissingFrom(d, 1)

----------------------------------------------------------------------------
(* load_gtfs_to_database *)

\* pd.read_csv(file_path): the exception it raises, or "ok"
ReadCsvError(d, file) ==
    IF file \notin DOMAIN d THEN "FileNotFoundError"
    ELSE IF d[file] = <<>> THEN "EmptyDataError"
    ELSE "ok"

\* pd.read_csv(file_path): the first line names the columns
ReadCsvKeepHeader(text) == [columns |-> Head(text), rows |-> text]

ReadCsv(text) == [columns |-> Head(text), rows |-> Tail(text)]

\* df.to_sql(table_name, conn, if_exists='replace', index=False)
ToSqlAppend(database, table, df) ==
    [t \in DOMAIN database \cup {table} |->
        IF t # table THEN database[t]
        ELSE IF table \in DOMAIN database
             THEN [columns |-> df.columns,
                   rows |-> database[table].rows \o df.rows]
             ELSE df]

ToSql(database, table, df) ==
    [t \in DOMAIN database \cup {table} |->
        IF t = table THEN df ELSE database[t]]

DropTable(database, table) ==
    [t \in DOMAIN database \ {table} |-> database[t]]

\* the database a to_sql that raises can leave: it raised before touching
\* the table, after dropping it, or after creating it empty (the insert is
\* one transaction, rolled back)
ToSqlFailed(database, table, df) ==
    {database,
     DropTable(database, table),
     ToSql(database, table, [columns |-> df.columns, rows |-> <<>>])}

----------------------------------------------------------------------------
(* Actions: the three stages *)

\* extract_gtfs_zip(zip_path, extract_dir), lines 84-96
Extract ==
    /\ pc = "extract"
    /\ trace' = Append(trace, "Extractor")
    /\ dirExists' = TRUE
    /\ LET exc == ZipFileOpen(zip) IN
         IF exc = "ok"
         THEN /\ dir' = extractall(dir, zip.entries)
              /\ extractRet' = TRUE
              /\ escaped' = "none"
         ELSE /\ dir' = dir
              /\ extractRet' = FALSE
              /\ escaped' = IF ExtractCatches(exc) THEN "none" ELSE exc
    /\ pc' = "extract_ret"
    /\ UNCHANGED <<zip, db, i, conn, validateRet, missing_files, loadRet,
                   loaded, failedAt, completed, runs, dirBefore, dbBefore, dbAfterOk>>

\* validate_gtfs_files(gtfs_dir), lines 108-119
Validate ==
    /\ pc = "validate"
    /\ trace' = Append(trace, "Validator")
    /\ missing_files' = MissingFiles(dir)
    /\ validateRet' = (missing_files' = <<>>)
    /\ pc' = "validate_ret"
    /\ UNCHANGED <<zip, dirExists, dir, db, i, conn, extractRet, loadRet,
                   loaded, failedAt, completed, escaped, runs, dirBefore,
                   dbBefore, dbAfterOk>>

\* load_gtfs_to_database, lines 132-136: mkdir, sqlite3.connect
LoadOpen ==
    /\ pc = "load"
    /\ trace' = Append(trace, "Loader")
    /\ conn' = "open"
    /\ i' = 1
    /\ loaded' = <<>>
    /\ failedAt' = <<0, "none">>
    /\ dbBefore' = db
    /\ pc' = "loading"
    /\ UNCHANGED <<zip, dirExists, dir, db, extractRet, validateRet,
                   missing_files, loadRet, completed, escaped, runs,
                   dirBefore, dbAfterOk>>

\* the exception `exc`, raised in the try block while `file` number i is
\* handled, reaches the handler of lines 152-154
LoadRaise(exc, cause) ==
    /\ failedAt' = <<i, cause>>
    /\ loadRet' = FALSE
    /\ escaped' = IF LoadCatches(exc) THEN "none" ELSE exc
    /\ pc' = "load_ret"
    /\ UNCHANGED <<zip, dirExists, dir, i, conn, trace, extractRet,
                   validateRet, missing_files, loaded, completed, runs,
                   dirBefore, dbBefore, dbAfterOk>>

\* lines 138-146, one iteration: read_csv and to_sql succeed
LoadFile ==
    /\ pc = "loading"
    /\ i <= Len(GTFS_FILES)
    /\ LET file == GTFS_FILES[i]
           table_name == TableName(file)
       IN /\ ReadCsvError(dir, file) = "ok"
          /\ LET df == ReadCsv(dir[file]) IN
               /\ db' = ToSql(db, table_name, df)
               /\ loaded' = Append(loaded, [file |-> file, n |-> Len(df.rows)])
    /\ i' = i + 1
    /\ UNCHANGED <<zip, dirExists, dir, pc, conn, trace, extractRet,
                   validateRet, missing_files, loadRet, failedAt, completed,
                   escaped, runs, dirBefore, dbBefore, dbAfterOk>>

\* line 143 raises: the file is missing or cannot be parsed
LoadParseFail ==
    /\ pc = "loading"
    /\ i <= Len(GTFS_FILES)
    /\ ReadCsvError(dir, GTFS_FILES[i]) # "ok"
    /\ db' = db
    /\ LoadRaise(ReadCsvError(dir, GTFS_FILES[i]), "parse")

\* line 144 raises: the database reports an error
LoadWriteFail ==
    /\ pc = "loading"
    /\ i <= Len(GTFS_FILES)
    /\ ReadCsvError(dir, GTFS_FILES[i]) = "ok"
    /\ db' \in ToSqlFailed(db, TableName(GTFS_FILES[i]),
                           ReadCsv(dir[GTFS_FILES[i]]))
    /\ LoadRaise("OperationalError", "write")

\* lines 148-150: the loop is over
LoadClose ==
    /\ pc = "loading"
    /\ i > Len(GTFS_FILES)
    /\ conn' = "closed"
    /\ loadRet' = TRUE
    /\ dbAfterOk' = Append(dbAfterOk, db)
    /\ pc' = "load_ret"
    /\ UNCHANGED <<zip, dirExists, dir, db, i, trace, extractRet,
                   validateRet, missing_files, loaded, failedAt, completed,
                   escaped, runs, dirBefore, dbBefore>>

----------------------------------------------------------------------------
(* Actions: main() *)

\* lines 169-171: main only logs the manual-download reminder; it does not
\* call download_gtfs_data
MainDownloadsWired == TRUE

MainDownloads == FALSE

\* lines 174-177: `if not zip_path.exists(): ... return`
AfterExistsCheckNoGate(exists) == "extract"

AfterExistsCheck(exists) == IF exists THEN "extract" ELSE "done"

\* lines 180-181: `if not extract_gtfs_zip(...): return`
AfterExtract(ok) == IF ok THEN "validate" ELSE "done"

\* lines 184-185: `if not validate_gtfs_files(...): return`
AfterValidateIgnored(ok) == "load"

AfterValidate(ok) == IF ok THEN "load" ELSE "done"

\* lines 188-191: `if not load_gtfs_to_database(...): return`, then the
\* "completed successfully" message
AfterLoad(ok) == ok

\* download_gtfs_data(GTFS_URL, zip_path), lines 55-71: the request fails
\* and the file stays, or the body of GTFS_URL (the dataset's landing page,
\* no ZIP) is written over it
DownloadOutcomes(z) == {z, CorruptArchive}

\* lines 160-177: mkdir DATA_DIR, then the check that the archive exists
MainStart ==
    /\ pc = "idle"
    /\ runs < MaxRuns
    /\ runs' = runs + 1
    /\ dirExists' = TRUE
    /\ IF MainDownloads
       THEN /\ trace' = <<"Fetcher">>
            /\ zip' \in DownloadOutcomes(zip)
       ELSE /\ trace' = <<>>
            /\ zip' = zip
    /\ pc' = AfterExistsCheck(zip'.kind # "absent")
    /\ dirBefore' = dir
    /\ dbBefore' = db
    /\ UNCHANGED <<dir, db, i, conn, extractRet, validateRet, missing_files,
                   loadRet, loaded, failedAt, completed, escaped, dbAfterOk>>

\* lines 180-181
MainAfterExtract ==
    /\ pc = "extract_ret"
    /\ pc' = IF escaped = "none" THEN AfterExtract(extractRet) ELSE "done"
    /\ UNCHANGED <<zip, dirExists, dir, db, i, conn, trace, extractRet,
                   validateRet, missing_files, loadRet, loaded, failedAt,
                   completed, escaped, runs, dirBefore, dbBefore, dbAfterOk>>

\* lines 184-185
MainAfterValidate ==
    /\ pc = "validate_ret"
    /\ pc' = AfterValidate(validateRet)
    /\ UNCHANGED <<zip, dirExists, dir, db, i, conn, trace, extractRet,
                   validateRet, missing_files, loadRet, loaded, failedAt,
                   completed, escaped, runs, dirBefore, dbBefore, dbAfterOk>>

\* lines 188-191
MainAfterLoad ==
    /\ pc = "load_ret"
    /\ completed' = (escaped = "none" /\ AfterLoad(loadRet))
    /\ pc' = "done"
    /\ UNCHANGED <<zip, dirExists, dir, db, i, conn, trace, extractRet,
                   validateRet, missing_files, loadRet, loaded, failedAt,
                   escaped, runs, dirBefore, dbBefore, dbAfterOk>>

\* the user puts, replaces or removes DATA_DIR/gtfs.zip; main reads the
\* path at line 174 and extract_gtfs_zip at line 88
PlaceArchive ==
    /\ pc \in {"idle", "extract"}
    /\ zip' \in Archives \ {zip}
    /\ UNCHANGED <<dirExists, dir, db, pc, i, conn, trace, extractRet,
                   validateRet, missing_files, loadRet, loaded, failedAt,
                   completed, escaped, runs, dirBefore, dbBefore, dbAfterOk>>

\* the process ends
MainExit ==
    /\ pc = "done"
    /\ pc' = "idle"
    /\ i' = 1
    /\ conn' = "none"
    /\ trace' = <<>>
    /\ extractRet' = FALSE
    /\ validateRet' = FALSE
    /\ missing_files' = <<>>
    /\ loadRet' = FALSE
    /\ loaded' = <<>>
    /\ failedAt' = <<0, "none">>
    /\ completed' = FALSE
    /\ escaped' = "none"
    /\ dbAfterOk' = <<>>
    /\ UNCHANGED <<zip, dirExists, dir, db, runs, dirBefore, dbBefore>>

\* the variables of a call before it starts
Locals ==
    /\ i = 1
    /\ conn = "none"
    /\ trace = <<>>
    /\ extractRet = FALSE
    /\ validateRet = FALSE
    /\ missing_files = <<>>
    /\ loadRet = FALSE
    /\ loaded = <<>>
    /\ failedAt = <<0, "none">>
    /\ completed = FALSE
    /\ escaped = "none"
    /\ dirBefore = dir
    /\ dbBefore = db
    /\ dbAfterOk = <<>>

\* a fresh checkout: no data directory, no database
Init ==
    /\ zip = NoArchive
    /\ dirExists = FALSE
    /\ dir = EmptyFn
    /\ db = EmptyFn
    /\ pc = "idle"
    /\ runs = 0
    /\ Locals

Next ==
    \/ PlaceArchive
    \/ MainStart
    \/ Extract
    \/ MainAfterExtract
    \/ Validate
    \/ MainAfterValidate
    \/ LoadOpen
    \/ LoadFile
    \/ LoadParseFail
    \/ LoadWriteFail
    \/ LoadClose
    \/ MainAfterLoad
    \/ MainExit

Spec == Init /\ [][Next]_vars

----------------------------------------------------------------------------
(* validate_gtfs_files called on any directory *)

ValidatorDirs ==
    {[f \in S |-> FeedText(1, f)] : S \in SUBSET Names}

InitValidator ==
    /\ zip = NoArchive
    /\ dirExists = TRUE
    /\ dir \in ValidatorDirs
    /\ db = EmptyFn
    /\ pc = "validate"
    /\ runs = 1
    /\ Locals

NextValidator == Validate

SpecValidator == InitValidator /\ [][NextValidator]_vars

----------------------------------------------------------------------------
(* load_gtfs_to_database called, and called again, on a directory and a    *)
(* database in any state                                                   *)

\* what extracting a feed, or one feed over another, leaves
LoaderDirs ==
    {extractall(EmptyFn, a.entries) : a \in Feeds}
        \cup {extractall(Feed(1, {}, {}).entries, a.entries) : a \in Feeds}

OldTable(n) == [columns |-> 0, rows |-> [j \in 1..n |-> 90 + j]]

\* no database; every table there with other rows; some tables there
LoaderDbs ==
    {EmptyFn,
     [t \in TableNames |-> OldTable(MaxRows + 1)],
     [t \in {"stops", "routes", "legacy"} |-> OldTable(1)]}

InitLoader ==
    /\ zip = NoArchive
    /\ dirExists = TRUE
    /\ dir \in LoaderDirs
    /\ db \in LoaderDbs
    /\ pc = "load"
    /\ runs = 1
    /\ Locals

\* the caller calls load_gtfs_to_database again
Reload ==
    /\ pc = "load_ret"
    /\ escaped = "none"
    /\ runs < MaxRuns
    /\ runs' = runs + 1
    /\ pc' = "load"
    /\ UNCHANGED <<zip, dirExists, dir, db, i, conn, trace, extractRet,
                   validateRet, missing_files, loadRet, loaded, failedAt,
                   completed, escaped, dirBefore, dbBefore, dbAfterOk>>

NextLoader ==
    \/ LoadOpen
    \/ LoadFile
    \/ LoadParseFail
    \/ LoadWriteFail
    \/ LoadClose
    \/ Reload

SpecLoader == InitLoader /\ [][NextLoader]_vars

----------------------------------------------------------------------------
(* Properties *)

MainStages == <<"Extractor", "Validator", "Loader">>

Prefix(s, n) == SubSeq(s, 1, n)

\* C1: in every run of main() the stages that execute do so in the order
\* Extractor, Validator, Loader; Validator runs only after Extractor
\* returned true, Loader only after Validator returned true, no stage runs
\* after one returned false, and "completed successfully" is logged only
\* if all three returned true.
C1_StagesInOrderStopAtFirstFailure ==
    /\ \E n \in 0..Len(MainStages) : trace = Prefix(MainStages, n)
    /\ "Validator" \in Range(trace) => extractRet
    /\ "Loader" \in Range(trace) => extractRet /\ validateRet
    /\ (pc = "done" /\ trace # <<>> /\ ~extractRet) => Len(trace) = 1
    /\ (pc = "done" /\ Len(trace) >= 2 /\ ~validateRet) => Len(trace) = 2
    /\ completed => extractRet /\ validateRet /\ loadRet

\* the spec's example: calendar_dates.txt is missing, the run stops before
\* Loader
C1_Witness ==
    /\ pc = "done"
    /\ trace = <<"Extractor", "Validator">>
    /\ extractRet
    /\ ~validateRet
    /\ missing_files = <<"calendar_dates.txt">>
    /\ ~completed

C3_ValidatorExact ==
    pc = "validate_ret" =>
        /\ validateRet <=> (\A k \in DOMAIN GTFS_FILES : GTFS_FILES[k] \in DOMAIN dir)
        /\ validateRet => missing_files = <<>>
        /\ Range(missing_files) = Expected \ DOMAIN dir
        /\ \A a, b \in DOMAIN missing_files :
             a < b => IndexOf(missing_files[a]) < IndexOf(missing_files[b])

\* two expected files are missing, a file the script does not expect is
\* present
C3_Witness ==
    /\ pc = "validate_ret"
    /\ ~validateRet
    /\ missing_files = <<"stops.txt", "calendar_dates.txt">>
    /\ ExtraFile \in DOMAIN dir

\* the table of the k-th expected file
TableOf(k) == TableName(GTFS_FILES[k])

\* table t is the same, or as absent, in databases a and b
SameTable(a, b, t) ==
    /\ t \in DOMAIN a <=> t \in DOMAIN b
    /\ t \in DOMAIN a => a[t] = b[t]

\* C4: calling load_gtfs_to_database again on the same directory is
\* idempotent: every successful call leaves the same tables, row for row,
\* as the first successful call did, whatever the database held at first.
C4_ReloadIdempotent ==
    \A a, b \in DOMAIN dbAfterOk : dbAfterOk[a] = dbAfterOk[b]

\* a second successful call that started from what the first one left,
\* on a database that held other rows at first
C4_Witness ==
    /\ pc = "load_ret"
    /\ loadRet
    /\ Len(dbAfterOk) = 2
    /\ dbBefore = dbAfterOk[1]
    /\ Len(db["stops"].rows) = 3

\* C5: when load_gtfs_to_database returns true, every name of GTFS_FILES
\* has its table, named without '.txt', whose row count is the number of
\* lines of the file after the header, whatever the table held before.
C5_RowCounts ==
    (pc = "load_ret" /\ loadRet) =>
        \A k \in DOMAIN GTFS_FILES :
            /\ TableOf(k) \in DOMAIN db
            /\ GTFS_FILES[k] \in DOMAIN dir
            /\ Len(db[TableOf(k)].rows) = Len(dir[GTFS_FILES[k]]) - 1

\* the spec's example: stops.txt holds a header and 3 data rows, and the
\* stops table, which held 1 row, has 3
C5_Witness ==
    /\ pc = "load_ret"
    /\ loadRet
    /\ Len(dir["stops.txt"]) = 4
    /\ "stops" \in DOMAIN dbBefore
    /\ Len(dbBefore["stops"].rows) = 1
    /\ Len(db["stops"].rows) = 3

\* what holds on every failure at the k-th file: false is returned and
\* nothing is raised, the files before the k-th and no others were loaded,
\* their tables hold the files' rows, and the tables of the later files
\* are as before the call
LoadFailedAt(k) ==
    /\ ~loadRet
    /\ escaped = "none"
    /\ Len(loaded) = k - 1
    /\ \A j \in 1..(k - 1) :
        /\ loaded[j].file = GTFS_FILES[j]
        /\ TableOf(j) \in DOMAIN db
        /\ db[TableOf(j)].rows = Tail(dir[GTFS_FILES[j]])
    /\ \A j \in (k + 1)..Len(GTFS_FILES) : SameTable(db, dbBefore, TableOf(j))

\* C6 as stated: if parsing or writing the k-th file fails, false is
\* returned without raising, no later file is loaded, the earlier tables
\* keep their new contents, and the tables of the k-th and later files are
\* exactly as before the call.
C6_KthTableUntouched ==
    (pc = "load_ret" /\ failedAt[1] >= 1) =>
        /\ LoadFailedAt(failedAt[1])
        /\ SameTable(db, dbBefore, TableOf(failedAt[1]))

\* C6 amended: as stated for a parse failure; when writing the k-th file
\* fails, the k-th table is as before the call, or dropped, or empty.
C6_KthTableUntouchedOnParseFailure ==
    (pc = "load_ret" /\ failedAt[1] >= 1) =>
        /\ LoadFailedAt(failedAt[1])
        /\ failedAt[2] = "parse" => SameTable(db, dbBefore, TableOf(failedAt[1]))
        /\ failedAt[2] = "write" =>
            \/ SameTable(db, dbBefore, TableOf(failedAt[1]))
            \/ TableOf(failedAt[1]) \notin DOMAIN db
            \/ db[TableOf(failedAt[1])].rows = <<>>

\* writing trips.txt, the 4th file, failed after its table was dropped;
\* the 3 tables before it are replaced
C6_Witness ==
    /\ pc = "load_ret"
    /\ failedAt = <<4, "write">>
    /\ "trips" \in DOMAIN dbBefore
    /\ "trips" \notin DOMAIN db
    /\ db["stops"] # dbBefore["stops"]
    /\ db["calendar"] = dbBefore["calendar"]

\* C7: for an archive that is absent or no valid ZIP, extract_gtfs_zip
\* returns false and lets no exception escape, and main() ends the run
\* without invoking Validator or Loader.
C7_ExtractFailsQuietly ==
    (trace # <<>> /\ zip.kind # "zip") =>
        /\ ~extractRet
        /\ escaped = "none"
        /\ trace = <<"Extractor">>
        /\ pc \in {"extract_ret", "done"}
        /\ ~completed

\* the archive was removed between the check of line 174 and the
\* extraction
C7_Witness ==
    /\ pc = "done"
    /\ trace = <<"Extractor">>
    /\ zip.kind = "absent"
    /\ ~extractRet

\* C8 as stated: after Extractor succeeds, every expected file of the
\* directory comes from the archive of that run, and after a successful
\* run so does every table.
C8_RegeneratedInFull ==
    /\ extractRet =>
        \A f \in Expected \cap DOMAIN dir :
            f \in DOMAIN zip.entries /\ dir[f] = zip.entries[f]
    /\ completed =>
        \A k \in DOMAIN GTFS_FILES :
            /\ GTFS_FILES[k] \in DOMAIN zip.entries
            /\ db[TableOf(k)].rows = Tail(zip.entries[GTFS_FILES[k]])

\* C9 as stated: on every return path of load_gtfs_to_database the
\* connection the call opened has been closed.
C9_ConnectionClosedOnReturn ==
    pc = "load_ret" => conn # "open"

\* C10: when the archive does not exist as main() starts, the run ends
\* without invoking Extractor, Validator or Loader; the archive, the
\* extracted files and every table are unchanged and DATA_DIR exists.
C10_NoArchiveNoEffect ==
    /\ [][(runs' = runs + 1 /\ zip.kind = "absent") =>
            /\ pc' = "done"
            /\ trace' = <<>>
            /\ dirExists'
            /\ zip' = zip
            /\ dir' = dir
            /\ db' = db]_vars
    /\ []((pc = "done" /\ trace = <<>>) => (dir = dirBefore /\ db = dbBefore))
    /\ [][(pc = "done" /\ trace = <<>>) =>
            (pc' = "idle" /\ zip' = zip /\ dir' = dir /\ db' = db)]_vars

\* a second run, after the archive was removed: the files and tables of
\* the first run are there
C10_Witness ==
    /\ pc = "done"
    /\ trace = <<>>
    /\ runs = 2
    /\ zip.kind = "absent"
    /\ dirExists
    /\ "stops.txt" \in DOMAIN dir
    /\ "stops" \in DOMAIN db

====
